---- MODULE Spec2Model ----
(***************************************************************************)
(* The to-do list of src/src/App.tsx: the task list, the three derived     *)
(* groups (today / tomorrow / upcoming) and the drag-and-drop reorder      *)
(* moveItem.                                                               *)
(*                                                                         *)
(* Time is counted in ticks, TicksPerDay of them to a calendar day; a Date *)
(* is the tick it denotes, or InvalidDate for an Invalid Date (NaN).       *)
(* A task object is a record; inside moveItem the arrays newTodos,         *)
(* fromGroupTodos and toGroupTodos hold references to the task objects of  *)
(* prevTodos, modelled as the objects' positions 1..Len(prevTodos).        *)
(***************************************************************************)
EXTENDS Integers, Sequences, FiniteSets, TLC

\* ---------------------------------------------------------------- bounds
\* The longest task list.
MaxTodos == 3

\* The longest list of the sessions of Spec.
MaxListed == 2

\* The times of day the clock and the due dates distinguish.
DayTimes == {"am", "pm"}
TicksPerDay == Cardinality(DayTimes)

\* ------------------------------------------------------ program constants
UpcomingDays == 7
InvalidDate == -1

\* new Date(null): the instant 0 of the clock, before every call.
EpochDate == 0

Groups == {"today", "tomorrow", "upcoming"}
Engines == {"v8", "spidermonkey"}

\* todos: the list held by useState<Todo[]> (App.tsx:78), a sequence of
\*        task records [id, text, completed, dueDate] (App.tsx:6-11).
\* now:   the instant new Date() returns (App.tsx:127, 224, 231, 239).
\* last:  the latest call of moveItem: its arguments, the list it was
\*        applied to and what it computed (kept for stating the claims).
\* storage: the value of the localStorage key 'todos' (App.tsx:67, 206).
\* filterStatus: the filter chosen with the filter buttons (App.tsx:82).
\* completedTodoId: the id the completion message is shown for, or null
\*        (App.tsx:84).
\* completionTimeoutRef: completionTimeoutRef.current, the handle of the
\*        timeout that hides the message, or null (App.tsx:90).
\* timeouts: the handles of the timeouts that are set and have neither
\*        fired nor been cleared (window.setTimeout, App.tsx:267).
\* dragItem: the item of the drag in progress, [id, index, group], which
\*        hover is given as item (App.tsx:28), or none.
VARIABLES todos, now, last, storage, filterStatus,
          completedTodoId, completionTimeoutRef, timeouts, dragItem

messageVars == <<completedTodoId, completionTimeoutRef, timeouts>>

vars == <<todos, now, last, storage, filterStatus, messageVars, dragItem>>

\* ------------------------------------------------------------------ dates
\* The calendar day (getFullYear, getMonth, getDate) of a valid Date.
DayOf(t) == t \div TicksPerDay

\* date.setDate(date.getDate() + n): same time of day, n days later.
AddDays(t, n) == t + n * TicksPerDay

isToday(date, clock) ==
    /\ date # InvalidDate
    /\ DayOf(date) = DayOf(clock)

\* isTomorrow with the day of the clock itself taken for tomorrow.
isTomorrowSameDay(date, clock) ==
    /\ date # InvalidDate
    /\ DayOf(date) = DayOf(clock)

isTomorrow(date, clock) ==
    /\ date # InvalidDate
    /\ DayOf(date) = DayOf(AddDays(clock, 1))

isDueOrOverdue(todo, clock) ==
    \/ (todo.dueDate # InvalidDate /\ todo.dueDate <= clock)
    \/ isToday(todo.dueDate, clock)

\* The filter predicate moveItem and the render use for a group name.
InGroup(todo, group, clock) ==
    IF group = "today" THEN isDueOrOverdue(todo, clock)
    ELSE IF group = "tomorrow" THEN isTomorrow(todo.dueDate, clock)
    ELSE ~isDueOrOverdue(todo, clock) /\ ~isTomorrow(todo.dueDate, clock)

\* ------------------------------------------------------- array primitives
Indices(n) == [k \in 1..n |-> k]

\* array.filter over the references of list: the positions whose object
\* satisfies the group predicate, in list order.
FilterGroup(list, group, clock) ==
    SelectSeq(Indices(Len(list)), LAMBDA k : InGroup(list[k], group, clock))

\* The actual start of array.splice(start, ...): a negative start counts
\* from the end, and the result is kept within 0..length.
SpliceStart(len, start) ==
    IF start < 0 THEN (IF len + start < 0 THEN 0 ELSE len + start)
    ELSE IF start > len THEN len ELSE start

\* The value of an empty destructuring, const [x] = []; no reference is 0.
Undefined == 0

\* const [x] = array.splice(start, 1): the element splice removes, or
\* Undefined when it removes none.
SplicedOut(a, start) ==
    LET s == SpliceStart(Len(a), start)
    IN  IF s < Len(a) THEN a[s + 1] ELSE Undefined

\* array.splice(start, 0, item).
InsertAt(a, start, item) ==
    LET s == SpliceStart(Len(a), start)
    IN  [k \in 1..(Len(a) + 1) |->
            IF k <= s THEN a[k] ELSE IF k = s + 1 THEN item ELSE a[k - 1]]

\* ------------------------------------------------------ Array.prototype.sort
\* The comparator with its operands exchanged (posB - posA).
CompareExchanged(a, b, pos) ==
    IF a.id \in DOMAIN pos /\ b.id \in DOMAIN pos
    THEN pos[b.id] - pos[a.id]
    ELSE 0

\* The comparator of newTodos.sort: the difference of the two positions in
\* todoPositions when both ids are keys of the map, and 0 otherwise.
\* pos is todoPositions, a function from the ids it holds to positions.
Compare(a, b, pos) ==
    IF a.id \in DOMAIN pos /\ b.id \in DOMAIN pos
    THEN pos[a.id] - pos[b.id]
    ELSE 0

\* This comparator is not a consistent one (a task outside the map compares
\* equal to every task), so the order sort produces is the engine's: the
\* two short-array algorithms below are the ones of V8 (binary insertion
\* after the first run, as TimSort does below its minimum run length) and
\* of SpiderMonkey (linear insertion).  cmp[x][y] is the comparator's value
\* on the objects that the references x and y denote.

RECURSIVE RunEnd(_, _, _, _)
\* Length of the run a[1..] that starts the array, idx the next candidate.
RunEnd(a, cmp, descending, idx) ==
    IF idx > Len(a) THEN idx - 1
    ELSE LET order == cmp[a[idx]][a[idx - 1]]
         IN  IF descending
             THEN (IF order >= 0 THEN idx - 1
                   ELSE RunEnd(a, cmp, descending, idx + 1))
             ELSE (IF order < 0 THEN idx - 1
                   ELSE RunEnd(a, cmp, descending, idx + 1))

RECURSIVE BinarySearch(_, _, _, _, _)
\* The 0-based insertion point of pivot in a[left..right).
BinarySearch(a, cmp, pivot, left, right) ==
    IF left >= right THEN left
    ELSE LET mid == left + ((right - left) \div 2)
         IN  IF cmp[pivot][a[mid + 1]] < 0
             THEN BinarySearch(a, cmp, pivot, left, mid)
             ELSE BinarySearch(a, cmp, pivot, mid + 1, right)

\* a with the element at 0-based position from moved to 0-based position to
\* (to <= from), the elements between shifted right by one.
MoveLeft(a, from, to) ==
    [k \in 1..Len(a) |->
        IF k <= to \/ k > from + 1 THEN a[k]
        ELSE IF k = to + 1 THEN a[from + 1]
        ELSE a[k - 1]]

RECURSIVE BinaryInsertionSort(_, _, _)
BinaryInsertionSort(a, cmp, start) ==
    IF start >= Len(a) THEN a
    ELSE LET left == BinarySearch(a, cmp, a[start + 1], 0, start)
         IN  BinaryInsertionSort(MoveLeft(a, start, left), cmp, start + 1)

Reverse(a, n) ==
    [k \in 1..Len(a) |-> IF k <= n THEN a[n + 1 - k] ELSE a[k]]

V8Sort(a, cmp) ==
    IF Len(a) < 2 THEN a
    ELSE LET descending == cmp[a[2]][a[1]] < 0
             runLength == RunEnd(a, cmp, descending, 3)
             run == IF descending THEN Reverse(a, runLength) ELSE a
         IN  BinaryInsertionSort(run, cmp, runLength)

RECURSIVE InsertionPoint(_, _, _, _)
\* The number of elements of a[1..j] that stay before item.
InsertionPoint(a, cmp, item, j) ==
    IF j = 0 THEN 0
    ELSE IF cmp[a[j]][item] <= 0 THEN j
    ELSE InsertionPoint(a, cmp, item, j - 1)

RECURSIVE InsertionSort(_, _, _)
InsertionSort(a, cmp, i) ==
    IF i >= Len(a) THEN a
    ELSE LET j == InsertionPoint(a, cmp, a[i + 1], i)
         IN  InsertionSort(MoveLeft(a, i, j), cmp, i + 1)

ArraySort(a, cmp, engine) ==
    IF engine = "v8" THEN V8Sort(a, cmp) ELSE InsertionSort(a, cmp, 1)

\* ----------------------------------------------------------------- moveItem
\* new Map(toGroupTodos.map((todo, index) => [todo.id, index])): a later
\* entry with the same id replaces the earlier one.
TodoPositions(toGroupTodos, heap) ==
    LET ids == {heap[toGroupTodos[k]].id : k \in 1..Len(toGroupTodos)}
        Last(id) == CHOOSE k \in 1..Len(toGroupTodos) :
                        /\ heap[toGroupTodos[k]].id = id
                        /\ \A m \in (k + 1)..Len(toGroupTodos) :
                               heap[toGroupTodos[m]].id # id
    IN  [id \in ids |-> Last(id) - 1]

\* The index check without its lower bound.
InvalidDragIndexAboveOnly(dragIndex, length) ==
    dragIndex >= length

\* The index check that opens moveItem.
\* The check with the last index of the group counted as out of range.
InvalidDragIndexOffByOne(dragIndex, length) ==
    dragIndex < 0 \/ dragIndex >= length - 1

InvalidDragIndex(dragIndex, length) ==
    dragIndex < 0 \/ dragIndex >= length

\* The due date with the offset of tomorrow used for upcoming as well.
GroupDueDateOneDay(toGroup, today) ==
    IF toGroup = "today" THEN today ELSE AddDays(today, 1)

\* The due date moveItem assigns to the dragged task.
GroupDueDate(toGroup, today) ==
    IF toGroup = "today" THEN today
    ELSE IF toGroup = "tomorrow" THEN AddDays(today, 1)
    ELSE AddDays(today, UpcomingDays)

\* The destination group sorted and returned in place of the whole list.
SortGroupOnly(newTodos, toGroupTodos, cmp, engine) ==
    ArraySort(toGroupTodos, cmp, engine)

\* newTodos.sort(...); return newTodos: the array the updater returns.
\* toGroupTodos is the destination group after the insertion.
SortNewTodos(newTodos, toGroupTodos, cmp, engine) ==
    ArraySort(newTodos, cmp, engine)

\* The state updater of moveItem, applied to prevTodos.  clock holds the
\* readings of new Date() made by the filter of the source group (from), by
\* the filter of the destination group (to) and by the due date assignment
\* (set).  The result holds the returned list (todos), whether the index was
\* accepted (valid), the reference of the dragged task (dragged, 0 when
\* there is none), the references in returned order (order) and the objects
\* of prevTodos after the call (prevAfter).
moveItem(prevTodos, dragIndex, hoverIndex, fromGroup, toGroup, clock, engine) ==
    LET newTodos == Indices(Len(prevTodos))
        fromGroupTodos == FilterGroup(prevTodos, fromGroup, clock.from)
        toGroupTodos == FilterGroup(prevTodos, toGroup, clock.to)
        unchanged == [todos |-> prevTodos, valid |-> FALSE, dragged |-> 0,
                      order |-> newTodos, prevAfter |-> prevTodos]
        draggedItem == SplicedOut(fromGroupTodos, dragIndex)
    IN  IF InvalidDragIndex(dragIndex, Len(fromGroupTodos)) THEN unchanged
        ELSE IF draggedItem = Undefined THEN unchanged
        ELSE
          LET heap == [prevTodos EXCEPT
                          ![draggedItem].dueDate = GroupDueDate(toGroup, clock.set)]
              spliced == InsertAt(toGroupTodos, hoverIndex, draggedItem)
              todoPositions == TodoPositions(spliced, heap)
              cmp == [x \in 1..Len(prevTodos) |-> [y \in 1..Len(prevTodos) |->
                         Compare(heap[x], heap[y], todoPositions)]]
              sorted == SortNewTodos(newTodos, spliced, cmp, engine)
          IN  [todos |-> [k \in 1..Len(sorted) |-> heap[sorted[k]]],
               valid |-> TRUE, dragged |-> draggedItem,
               order |-> sorted, prevAfter |-> heap]

\* --------------------------------------------------------------- handlers
\* The texts the forms are given: empty, one blank, and two words.
InputTexts == {"", " ", "a", "b"}

\* String.prototype.trim on the texts of InputTexts.
Trim(text) == IF text = " " THEN "" ELSE text

\* The value of a date field: the number of the chosen day, or no day when
\* the field was cleared.
EmptyField == -1

\* The time zones of the browser: local time is behind UTC (the Americas),
\* less than half a day ahead of it, or half a day and more ahead. Ticks
\* count local time, and zone is the local time, in ticks, of UTC midnight.
Zones == {-1, 0, 1}

\* new Date('YYYY-MM-DD'): a date-only string is read as midnight UTC of the
\* day; an empty string gives an Invalid Date.
NewDate(field, zone) ==
    IF field = EmptyField THEN InvalidDate ELSE field * TicksPerDay + zone

\* addTodo: a text that is not blank after trim appends a task whose id is
\* the clock reading as a string and whose dueDate is new Date(dueDate).
addTodo(list, newTodo, dueDate, clock, zone) ==
    IF Trim(newTodo) # ""
    THEN Append(list, [id |-> ToString(clock), text |-> newTodo,
                       completed |-> FALSE, dueDate |-> NewDate(dueDate, zone)])
    ELSE list

\* toggleTodo: todos.map, a copy with completed negated where the id is id.
toggleTodo(list, id) ==
    [k \in 1..Len(list) |->
        IF list[k].id = id
        THEN [list[k] EXCEPT !.completed = ~list[k].completed]
        ELSE list[k]]

\* deleteTodo: todos.filter(todo => todo.id !== id).
deleteTodo(list, id) ==
    SelectSeq(list, LAMBDA todo : todo.id # id)

\* editTodo: todos.map, a copy with the new text and due date where the id
\* is id.
editTodo(list, id, newText, newDueDate) ==
    [k \in 1..Len(list) |->
        IF list[k].id = id
        THEN [list[k] EXCEPT !.text = newText, !.dueDate = newDueDate]
        ELSE list[k]]

\* The filter statuses of the three filter buttons.
FilterStatuses == {"all", "active", "completed"}

\* filterTodos with the cases of 'active' and 'completed' exchanged.
filterTodosExchanged(list, status) ==
    IF status = "active" THEN SelectSeq(list, LAMBDA todo : todo.completed)
    ELSE IF status = "completed"
         THEN SelectSeq(list, LAMBDA todo : ~todo.completed)
    ELSE list

\* filterTodos: the switch on filterStatus.
filterTodos(list, status) ==
    IF status = "active" THEN SelectSeq(list, LAMBDA todo : ~todo.completed)
    ELSE IF status = "completed"
         THEN SelectSeq(list, LAMBDA todo : todo.completed)
    ELSE list

\* ------------------------------------------------------------ persistence
\* Date.prototype.toJSON inside JSON.stringify: the ISO string of a valid
\* Date (here the pair of "iso" and the instant), null for an Invalid Date.
DateToJSON(date) ==
    IF date = InvalidDate THEN "null" ELSE <<"iso", date>>

\* new Date(value) of a parsed dueDate: null gives the instant 0, an ISO
\* string the instant it names.
DateFromJSON(value) ==
    IF value = "null" THEN EpochDate ELSE value[2]

\* JSON.stringify(todos).
Stringify(list) ==
    [k \in 1..Len(list) |->
        [id |-> list[k].id, text |-> list[k].text,
         completed |-> list[k].completed,
         dueDate |-> DateToJSON(list[k].dueDate)]]

\* The key holds no item (getItem returns null) or one item: the storage
\* is the sequence of the items under the key.
NoItem == << >>

\* saveTodosToLocalStorage: the storage after setItem.
saveTodosToLocalStorage(list) == <<Stringify(list)>>

\* loadTodosFromLocalStorage: [] without an item, else the parsed array with
\* every id turned into a string and every dueDate into a Date.
loadTodosFromLocalStorage(item) ==
    IF item = NoItem THEN << >>
    ELSE [k \in 1..Len(item[1]) |->
             [id |-> item[1][k].id, text |-> item[1][k].text,
              completed |-> item[1][k].completed,
              dueDate |-> DateFromJSON(item[1][k].dueDate)]]

\* ---------------------------------------------------- completion message
\* The most timeouts that can be pending at once in the model.
MaxTimeouts == 2

\* completedTodoId = null; completionTimeoutRef.current = null.
NullId == "null"
NullTimeout == 0

\* No drag is in progress.
NoDrag == [id |-> NullId]

\* window.setTimeout: the handle of the new timeout, the least positive
\* number that is the handle of no pending timeout.
SetTimeout(pending) ==
    IF (1..MaxTimeouts) \ pending = {} THEN MaxTimeouts
    ELSE CHOOSE h \in (1..MaxTimeouts) \ pending :
             \A g \in (1..MaxTimeouts) \ pending : h <= g

\* toggleTodo for a task that becomes completed, with completionTimeoutRef
\* left pointing at the cleared timeout.
ShowMessageNoTimeout(m, id) ==
    [completedTodoId |-> id,
     completionTimeoutRef |-> m.completionTimeoutRef,
     timeouts |-> m.timeouts \ {m.completionTimeoutRef}]

\* toggleTodo for a task that becomes completed: the message is shown for
\* id, the timeout of the ref, if any, is cleared and a new one is set.
ShowMessage(m, id) ==
    LET cleared == IF m.completionTimeoutRef # NullTimeout
                   THEN m.timeouts \ {m.completionTimeoutRef}
                   ELSE m.timeouts
        handle == SetTimeout(cleared)
    IN  [completedTodoId |-> id, completionTimeoutRef |-> handle,
         timeouts |-> cleared \cup {handle}]

\* toggleTodo for a task that becomes not completed: the timeout of the
\* ref, if any, is cleared and the ref set to null; the message is hidden.
HideMessage(m) ==
    IF m.completionTimeoutRef # NullTimeout
    THEN [completedTodoId |-> NullId, completionTimeoutRef |-> NullTimeout,
          timeouts |-> m.timeouts \ {m.completionTimeoutRef}]
    ELSE [m EXCEPT !.completedTodoId = NullId]

\* The message state after toggleTodo's map has visited the tasks from
\* position k on, in list order.
RECURSIVE ToggledMessage(_, _, _, _)
ToggledMessage(list, id, m, k) ==
    IF k > Len(list) THEN m
    ELSE IF list[k].id # id THEN ToggledMessage(list, id, m, k + 1)
    ELSE IF ~list[k].completed
         THEN ToggledMessage(list, id, ShowMessage(m, id), k + 1)
         ELSE ToggledMessage(list, id, HideMessage(m), k + 1)

\* -------------------------------------------------- the state machine
\* todos is the React state of App, now the wall clock, last the record of
\* the latest call: its arguments, the list it was applied to (prev), the
\* clock at the call (at) and what moveItem computed.

NoCall == [op |-> "none"]

\* The calls are made during the second day of the model's time, at any
\* time of day; the due dates run from the last tick of the day before
\* (overdue) over that day (before, at or after the call) to the first tick
\* of the next day (tomorrow), with the first tick of the day after that
\* (upcoming).
InputNows == TicksPerDay..(2 * TicksPerDay - 1)
InputDueDates == ((TicksPerDay - 1)..(2 * TicksPerDay)) \cup {3 * TicksPerDay}

\* The k-th task created, as addTodo creates it: its id is a string made
\* from the creation instant, so ids differ from task to task.
InputTask(k, dueDate) ==
    [id |-> ToString(k), text |-> IF k % 2 = 0 THEN "b" ELSE "a",
     completed |-> (k % 2 = 0), dueDate |-> dueDate]

InputLists ==
    UNION { { [k \in 1..n |-> InputTask(k, dates[k])] :
                  dates \in [1..n -> InputDueDates] } : n \in 0..MaxTodos }

\* The record of a call is kept in last unless the specification switched
\* the record off.
NoRecord == [op |-> "off"]
Log(call) == last' = IF last = NoRecord THEN last ELSE call

\* The effect on [todos] that follows every render with a new list.
SaveEffect == storage' = saveTodosToLocalStorage(todos')

\* No message is shown and no timeout is pending.
NoMessage ==
    /\ completedTodoId = NullId
    /\ completionTimeoutRef = NullTimeout
    /\ timeouts = {}

InitMove ==
    /\ todos \in InputLists
    /\ now \in InputNows
    /\ last = NoCall
    /\ storage = saveTodosToLocalStorage(todos)
    /\ filterStatus = "all"
    /\ NoMessage
    /\ dragItem = NoDrag

\* One call moveItem(dragIndex, hoverIndex, fromGroup, toGroup): setTodos
\* applies the updater to the current list, with every clock reading of
\* the synchronous call returning the same instant.
\* A call of moveItem that reads the clock as clock.from while it filters
\* the source group, as clock.to while it filters the destination group and
\* as clock.set when it takes today = new Date(); the call ends at clock.set.
MoveItemDuring(dragIndex, hoverIndex, fromGroup, toGroup, engine, clock) ==
    \E r \in {moveItem(todos, dragIndex, hoverIndex, fromGroup, toGroup,
                         clock, engine)} :
        /\ todos' = r.todos
        /\ Log([op |-> "moveItem", dragIndex |-> dragIndex,
                hoverIndex |-> hoverIndex, fromGroup |-> fromGroup,
                toGroup |-> toGroup, prev |-> todos, at |-> now,
                clock |-> clock, valid |-> r.valid, dragged |-> r.dragged,
                order |-> r.order, prevAfter |-> r.prevAfter])
        /\ SaveEffect
        /\ now' = clock.set
        /\ UNCHANGED <<filterStatus, messageVars, dragItem>>

\* A call of moveItem within one reading of the clock.
MoveItem(dragIndex, hoverIndex, fromGroup, toGroup, engine) ==
    MoveItemDuring(dragIndex, hoverIndex, fromGroup, toGroup, engine,
                   [from |-> now, to |-> now, set |-> now])

NextMove ==
    /\ last = NoCall
    /\ \E dragIndex \in (-1)..MaxTodos, hoverIndex \in (-1)..(MaxTodos + 1),
          fromGroup \in Groups, toGroup \in Groups, engine \in Engines :
           MoveItem(dragIndex, hoverIndex, fromGroup, toGroup, engine)

SpecMove == InitMove /\ [][NextMove]_vars

\* ------------------------------------------- one call of any list handler
\* The values of a date field: the day of the calls, the two days after
\* it, and the cleared field.
InputFields == (1..3) \cup {EmptyField}

\* The first ticks of the days from the day of the calls on: the dates a
\* date field gives in the zone of UTC, with the Invalid Date of an empty
\* field.
InputFieldDates == {NewDate(field, 0) : field \in InputFields}

\* The dates a date field gives in any zone.
InputZoneDates ==
    {NewDate(field, zone) : field \in InputFields, zone \in Zones}

\* The ids of the tasks of a list of n tasks, up to renaming: two tasks may
\* carry one id, since addTodo makes the id from the clock reading alone.
InputIds(n) ==
    {ids \in [1..n -> 1..n] :
        \A k \in 1..n :
            ids[k] <= 1 + Cardinality({ids[j] : j \in 1..(k - 1)})}

InputListsAnyId ==
    UNION { { [k \in 1..n |->
                  [InputTask(k, dates[k]) EXCEPT !.id = ToString(ids[k])]] :
                  dates \in [1..n -> InputFieldDates], ids \in InputIds(n) } :
            n \in 0..MaxTodos }

\* The ids a handler is called with: those of the tasks and one of no task.
CallIds == {ToString(k) : k \in 0..MaxTodos}

\* A submit of the add form with the text newTodo and the date field
\* dueDate, in a browser of the time zone zone.
AddTodo(newTodo, dueDate, zone) ==
    /\ IF Trim(newTodo) # ""
       THEN todos' = addTodo(todos, newTodo, dueDate, now, zone) /\ SaveEffect
       ELSE UNCHANGED <<todos, storage>>
    /\ Log([op |-> "addTodo", newTodo |-> newTodo, dueDate |-> dueDate,
            zone |-> zone, prev |-> todos, at |-> now])
    /\ UNCHANGED <<now, filterStatus, messageVars, dragItem>>

ToggleTodo(id) ==
    /\ todos' = toggleTodo(todos, id)
    /\ \E m \in {ToggledMessage(todos, id,
                      [completedTodoId |-> completedTodoId,
                       completionTimeoutRef |-> completionTimeoutRef,
                       timeouts |-> timeouts], 1)} :
          /\ completedTodoId' = m.completedTodoId
          /\ completionTimeoutRef' = m.completionTimeoutRef
          /\ timeouts' = m.timeouts
    /\ Log([op |-> "toggleTodo", id |-> id, prev |-> todos, at |-> now])
    /\ SaveEffect
    /\ UNCHANGED <<now, filterStatus, dragItem>>

\* The timeout with the handle fires: its callback hides the message and
\* sets the ref to null.
CompletionTimeout(handle) ==
    /\ handle \in timeouts
    /\ timeouts' = timeouts \ {handle}
    /\ completedTodoId' = NullId
    /\ completionTimeoutRef' = NullTimeout
    /\ UNCHANGED <<todos, now, last, storage, filterStatus, dragItem>>

TimeoutFires == \E handle \in 1..MaxTimeouts : CompletionTimeout(handle)

\* localStorage.removeItem on an empty result is followed by the effect,
\* which sets the item again.
DeleteTodo(id) ==
    /\ todos' = deleteTodo(todos, id)
    /\ Log([op |-> "deleteTodo", id |-> id, prev |-> todos, at |-> now])
    /\ SaveEffect
    /\ UNCHANGED <<now, filterStatus, messageVars, dragItem>>

EditTodo(id, newText, newDueDate) ==
    /\ todos' = editTodo(todos, id, newText, newDueDate)
    /\ Log([op |-> "editTodo", id |-> id, newText |-> newText,
            newDueDate |-> newDueDate, prev |-> todos, at |-> now])
    /\ SaveEffect
    /\ UNCHANGED <<now, filterStatus, messageVars, dragItem>>

InitOps ==
    /\ todos \in InputListsAnyId
    /\ now \in InputNows
    /\ last = NoCall
    /\ storage = saveTodosToLocalStorage(todos)
    /\ filterStatus = "all"
    /\ NoMessage
    /\ dragItem = NoDrag

\* One call, of one handler, on the list of the initial state.
CallAddTodo ==
    /\ last = NoCall
    /\ \E newTodo \in InputTexts, dueDate \in InputFields, zone \in Zones :
           AddTodo(newTodo, dueDate, zone)

CallToggleTodo ==
    /\ last = NoCall
    /\ \E id \in CallIds : ToggleTodo(id)

CallDeleteTodo ==
    /\ last = NoCall
    /\ \E id \in CallIds : DeleteTodo(id)

CallEditTodo ==
    /\ last = NoCall
    /\ \E id \in CallIds, newText \in InputTexts,
          newDueDate \in InputZoneDates :
           EditTodo(id, newText, newDueDate)

NextOps ==
    \/ CallAddTodo
    \/ CallToggleTodo
    \/ CallDeleteTodo
    \/ CallEditTodo
    \/ NextMove

SpecOps == InitOps /\ [][NextOps]_vars

\* ============================================================ the claims
\* What the claims speak of, read from the record of the latest call.

Called == last.op = "moveItem"

\* The call passed the index check and moved a task.
ValidMove == Called /\ last.valid

SameGroup == last.fromGroup = last.toGroup

\* The tasks of a group in a list, in list order.
GroupTodos(list, group, clock) ==
    SelectSeq(list, LAMBDA todo : InGroup(todo, group, clock))

\* The source and the destination group of the call, as references into
\* the list the call was applied to.
SourceGroup == FilterGroup(last.prev, last.fromGroup, last.at)
DestGroup == FilterGroup(last.prev, last.toGroup, last.at)

\* A group of the returned list at the instant of the call, as references
\* into the list the call was applied to.
ReturnedGroup(group) ==
    LET at == FilterGroup(todos, group, last.at)
    IN  [k \in 1..Len(at) |-> last.order[at[k]]]

\* The position in the returned list of the task with reference ref.
ReturnedAt(ref) == CHOOSE p \in 1..Len(last.order) : last.order[p] = ref

\* a without its element at 0-based position i, re-inserted at 0-based j.
Reinserted(a, i, j) ==
    LET rest == [k \in 1..(Len(a) - 1) |-> IF k <= i THEN a[k] ELSE a[k + 1]]
    IN  [k \in 1..Len(a) |->
            IF k <= j THEN rest[k] ELSE IF k = j + 1 THEN a[i + 1] ELSE rest[k - 1]]

\* C1: a valid move within one group, from index i to index j of the group,
\* returns a list whose tasks of that group are the group's former tasks
\* with the one at i taken out and put back at j.
C1_WithinGroupReorder ==
    (ValidMove /\ SameGroup
       /\ last.hoverIndex >= 0 /\ last.hoverIndex < Len(SourceGroup))
    => ReturnedGroup(last.toGroup)
         = Reinserted(SourceGroup, last.dragIndex, last.hoverIndex)

\* C2: a valid move to another group, to an index from 0 to the size of that
\* group, returns a list in which the moved task is at that index among the
\* tasks of the destination group.
C2_CrossGroupPosition ==
    (ValidMove /\ ~SameGroup
       /\ last.hoverIndex >= 0 /\ last.hoverIndex <= Len(DestGroup))
    => /\ Len(ReturnedGroup(last.toGroup)) > last.hoverIndex
       /\ ReturnedGroup(last.toGroup)[last.hoverIndex + 1] = last.dragged

\* C3: after a valid move the returned list is its today tasks, followed by
\* its tomorrow tasks, followed by its upcoming tasks.
C3_GroupOrder ==
    ValidMove
    => todos = GroupTodos(todos, "today", last.at)
                 \o GroupTodos(todos, "tomorrow", last.at)
                 \o GroupTodos(todos, "upcoming", last.at)

\* C4: a valid move changes no due date but that of the moved task, and
\* that one only when the move is to another group.
C4_DueDateFrame ==
    ValidMove
    => \A p \in 1..Len(todos) :
          (last.order[p] # last.dragged \/ SameGroup)
          => todos[p].dueDate = last.prev[last.order[p]].dueDate

\* The number of tasks of a list that carry an id.
Count(list, id) == Cardinality({k \in 1..Len(list) : list[k].id = id})

\* C5: a valid move returns a permutation of the list: the same length and
\* every id as many times as before.
C5_Permutation ==
    ValidMove
    => /\ Len(todos) = Len(last.prev)
       /\ \A k \in 1..Len(last.prev) :
             Count(todos, last.prev[k].id) = Count(last.prev, last.prev[k].id)
       /\ \A k \in 1..Len(todos) :
             Count(todos, todos[k].id) = Count(last.prev, todos[k].id)

\* A move to another group that changed the order of a list of three.
C5_Witness ==
    /\ ValidMove /\ ~SameGroup
    /\ Len(last.prev) = 3
    /\ last.order # Indices(3)

\* C6: a call whose dragIndex is below 0 or not below the size of the source
\* group returns the list it was given, every task as it was.
C6_InvalidIndex ==
    (Called /\ (last.dragIndex < 0 \/ last.dragIndex >= Len(SourceGroup)))
    => /\ todos = last.prev
       /\ last.prevAfter = last.prev

\* A call refused for the index just past a source group of two tasks.
C6_Witness ==
    /\ Called /\ ~last.valid
    /\ Len(SourceGroup) = 2
    /\ last.dragIndex = Len(SourceGroup)
    /\ todos = last.prev

\* C7: a valid move within one group to the index the task is at returns a
\* list equal to the one it was given, due dates included.
C7_SameIndexNoOp ==
    (ValidMove /\ SameGroup /\ last.hoverIndex = last.dragIndex)
    => todos = last.prev

\* C8: after a valid move to another group the moved task is due at the
\* instant of the call for today, one day later for tomorrow and seven days
\* later for upcoming, and it is in the destination group and in no other.
C8_CrossGroupDueDate ==
    (ValidMove /\ ~SameGroup)
    => LET moved == todos[ReturnedAt(last.dragged)]
       IN  /\ last.toGroup = "today" => moved.dueDate = last.at
           /\ last.toGroup = "tomorrow"
                 => moved.dueDate = last.at + TicksPerDay
           /\ last.toGroup = "upcoming"
                 => moved.dueDate = last.at + 7 * TicksPerDay
           /\ \A g \in Groups : InGroup(moved, g, last.at) <=> g = last.toGroup

\* A task that was due the day before, moved from today to upcoming.
C8_Witness ==
    /\ ValidMove
    /\ last.fromGroup = "today" /\ last.toGroup = "upcoming"
    /\ last.prev[last.dragged].dueDate < last.at
    /\ todos[ReturnedAt(last.dragged)].dueDate = last.at + 7 * TicksPerDay

\* C9: a valid move keeps the relative order of every two tasks of one
\* group that are not the moved task.
C9_OthersKeepOrder ==
    ValidMove
    => \A a, b \in 1..Len(last.prev) :
          (/\ a < b
           /\ a # last.dragged /\ b # last.dragged
           /\ \E g \in Groups : /\ InGroup(last.prev[a], g, last.at)
                                /\ InGroup(last.prev[b], g, last.at))
          => ReturnedAt(a) < ReturnedAt(b)

\* A move that took the moved task from before two other tasks of one group
\* to after them.
C9_Witness ==
    /\ ValidMove
    /\ \E a, b \in 1..Len(last.prev) :
          /\ last.dragged < a /\ a < b
          /\ \E g \in Groups : /\ InGroup(last.prev[a], g, last.at)
                               /\ InGroup(last.prev[b], g, last.at)
          /\ ReturnedAt(a) < ReturnedAt(b)
          /\ ReturnedAt(b) < ReturnedAt(last.dragged)

\* C10: a valid move with a hoverIndex above the size of the destination
\* group makes the moved task the last of that group, and one with a
\* hoverIndex below 0 makes it the first.
C10_ClampedInsert ==
    ValidMove
    => LET dest == ReturnedGroup(last.toGroup)
       IN  /\ last.hoverIndex > Len(DestGroup)
                => (Len(dest) > 0 /\ dest[Len(dest)] = last.dragged)
           /\ last.hoverIndex < 0
                => (Len(dest) > 0 /\ dest[1] = last.dragged)

\* C11: after a call of moveItem the list it was applied to has the order
\* and the task records (id, text, completed, due date) it had before.
C11_PrevTodosUnchanged ==
    Called => last.prevAfter = last.prev

\* C16: a call with dragIndex 0 on a source group of exactly one task and
\* another destination group moves the task: the returned list has no task
\* in the source group and has that task in the destination group.
C16_OnlyItemMoves ==
    (Called /\ ~SameGroup /\ last.dragIndex = 0 /\ Len(SourceGroup) = 1)
    => /\ last.valid
       /\ last.dragged = SourceGroup[1]
       /\ Len(FilterGroup(todos, last.fromGroup, last.at)) = 0
       /\ todos[ReturnedAt(last.dragged)].id = last.prev[last.dragged].id
       /\ InGroup(todos[ReturnedAt(last.dragged)], last.toGroup, last.at)

C16_Witness ==
    /\ Called /\ ~SameGroup /\ last.dragIndex = 0 /\ Len(SourceGroup) = 1
    /\ Len(last.prev) = MaxTodos
    /\ Len(FilterGroup(todos, last.toGroup, last.at)) > 1
\* ------------------------------------------------- the rendered groups
\* The lists that are rendered: tasks with any due date of InputDueDates
\* or an Invalid Date.
InputListsAnyDate ==
    UNION { { [k \in 1..n |-> InputTask(k, dates[k])] :
                  dates \in [1..n -> InputDueDates \cup {InvalidDate}] } :
            n \in 0..MaxTodos }

\* todayTodos, tomorrowTodos and upcomingTodos of a render, as references
\* into the list.
RenderedGroups(list, clock) ==
    [group \in Groups |-> FilterGroup(list, group, clock)]

\* The tasks a render shows under the heading of each group:
\* filterTodos of the group's tasks.
Displayed(list, status, clock) ==
    [group \in Groups |-> filterTodos(GroupTodos(list, group, clock), status)]

\* A click on a filter button.
SetFilterStatus(status) ==
    /\ filterStatus' = status
    /\ Log([op |-> "setFilterStatus", status |-> status, prev |-> todos,
            item |-> storage])
    /\ UNCHANGED <<todos, now, storage, messageVars, dragItem>>

\* A render of the component at one instant.
Render ==
    /\ Log([op |-> "render", groups |-> RenderedGroups(todos, now),
            displayed |-> Displayed(todos, filterStatus, now)])
    /\ UNCHANGED <<todos, now, storage, filterStatus, messageVars, dragItem>>

InitView ==
    /\ todos \in InputListsAnyDate
    /\ now \in InputNows
    /\ last = NoCall
    /\ storage = saveTodosToLocalStorage(todos)
    /\ filterStatus = "all"
    /\ NoMessage
    /\ dragItem = NoDrag

ViewSetFilterStatus ==
    /\ last.op # "render"
    /\ \E status \in FilterStatuses : SetFilterStatus(status)

ViewRender ==
    /\ last.op # "render"
    /\ Render

NextView == ViewSetFilterStatus \/ ViewRender

SpecView == InitView /\ [][NextView]_vars

\* The references of an array of references.
Refs(a) == {a[k] : k \in 1..Len(a)}

\* C13: at the instant of a render every task of the list, whatever its
\* due date, is in exactly one of the three groups, and none is in both
\* today and tomorrow.
C13_ExactlyOneGroup ==
    last.op = "render"
    => \A k \in 1..Len(todos) :
          /\ Cardinality({group \in Groups : k \in Refs(last.groups[group])}) = 1
          /\ ~(k \in Refs(last.groups["today"])
                 /\ k \in Refs(last.groups["tomorrow"]))

C13_Witness ==
    /\ last.op = "render"
    /\ \E k \in 1..Len(todos) : todos[k].dueDate = InvalidDate
    /\ \E k \in 1..Len(todos) : todos[k].dueDate # InvalidDate
                                   /\ todos[k].dueDate < now
    /\ Len(last.groups["tomorrow"]) > 0

\* A task is shown under a filter status.
Shown(todo, status) ==
    \/ status = "all"
    \/ status = "active" /\ ~todo.completed
    \/ status = "completed" /\ todo.completed

\* C19: a render shows, for each group, the tasks of the list that are in
\* the group and are not completed ('active'), completed ('completed') or
\* any ('all'), in the order of the list; a change of the filter leaves the
\* list and the stored list as they were.
C19_DisplayedTasks ==
    /\ last.op = "render"
         => \A group \in Groups :
               last.displayed[group]
                 = SelectSeq(todos, LAMBDA todo :
                       InGroup(todo, group, now) /\ Shown(todo, filterStatus))
    /\ last.op = "setFilterStatus"
         => todos = last.prev /\ storage = last.item

C19_Witness ==
    /\ last.op = "render"
    /\ filterStatus = "active"
    /\ \E group \in Groups :
          /\ Len(last.displayed[group]) > 0
          /\ Len(last.displayed[group]) < Len(last.groups[group])
          /\ Len(last.groups[group]) = MaxTodos

\* ------------------------------------------- a call while the clock runs
\* The readings of the clock during one call: from the instant of the call
\* to the first tick of the next day, never backwards.
ClockReadings(start) ==
    {clock \in [from : start..(2 * TicksPerDay), to : start..(2 * TicksPerDay),
                set : start..(2 * TicksPerDay)] :
        clock.from <= clock.to /\ clock.to <= clock.set}

NextClock ==
    /\ last = NoCall
    /\ \E dragIndex \in (-1)..MaxTodos, hoverIndex \in (-1)..(MaxTodos + 1),
          fromGroup \in Groups, toGroup \in Groups, engine \in Engines,
          clock \in ClockReadings(now) :
           MoveItemDuring(dragIndex, hoverIndex, fromGroup, toGroup, engine,
                          clock)

SpecClock == InitMove /\ [][NextClock]_vars

\* C14: one call of moveItem works with one partition of the list, also
\* when the clock passes midnight during the call: no task is in both the
\* source and the destination subsequence the call computes for two
\* different groups, and the due date the call assigns puts the moved task
\* in the destination group as the call computed it.
C14_OneClockReading ==
    Called
    => /\ ~SameGroup
            => Refs(FilterGroup(last.prev, last.fromGroup, last.clock.from))
                 \cap Refs(FilterGroup(last.prev, last.toGroup, last.clock.to))
                 = {}
       /\ last.valid
            => InGroup(last.prevAfter[last.dragged], last.toGroup,
                       last.clock.to)

\* ------------------------------------------------------------ sessions
\* A session starts with the stored list, or the empty list when nothing
\* is stored, and the first effect stores it.
Reload ==
    /\ todos' = loadTodosFromLocalStorage(storage)
    /\ Log([op |-> "reload", item |-> storage, prev |-> todos])
    /\ SaveEffect
    /\ filterStatus' = "all"
    /\ completedTodoId' = NullId
    /\ completionTimeoutRef' = NullTimeout
    /\ timeouts' = {}
    /\ dragItem' = NoDrag
    /\ UNCHANGED now

\* The clock advances, up to the first tick of the next day.
Tick ==
    /\ now < 2 * TicksPerDay
    /\ now' = now + 1
    /\ UNCHANGED <<todos, last, storage, filterStatus, messageVars, dragItem>>

\* The ids of the tasks that are rendered with their buttons.
ListedIds == {todos[k].id : k \in 1..Len(todos)}

Init ==
    /\ todos = loadTodosFromLocalStorage(NoItem)
    /\ now = TicksPerDay
    /\ last = NoRecord
    /\ storage = saveTodosToLocalStorage(todos)
    /\ filterStatus = "all"
    /\ NoMessage
    /\ dragItem = NoDrag

\* The sessions run in a browser whose zone is that of UTC.
SessionZone == 0

SubmitAddTodo ==
    /\ Len(todos) < MaxListed
    /\ \E newTodo \in InputTexts, dueDate \in InputFields :
           AddTodo(newTodo, dueDate, SessionZone)

ClickToggleTodo == \E id \in ListedIds : ToggleTodo(id)

ClickDeleteTodo == \E id \in ListedIds : DeleteTodo(id)

SubmitEditTodo ==
    \E id \in ListedIds, newText \in InputTexts, dueDate \in InputFields :
        EditTodo(id, newText, NewDate(dueDate, SessionZone))

\* A drag of a rendered item over a rendered item: each DraggableItem is
\* given its index among the tasks shown for its group, and hover returns
\* when index and group of the two are the same.
HoverMoveItem ==
    \E shown \in {Displayed(todos, filterStatus, now)} :
        \E fromGroup \in Groups, toGroup \in Groups, engine \in Engines :
            \E dragIndex \in 0..(Len(shown[fromGroup]) - 1),
               hoverIndex \in 0..(Len(shown[toGroup]) - 1) :
                /\ ~(dragIndex = hoverIndex /\ fromGroup = toGroup)
                /\ MoveItem(dragIndex, hoverIndex, fromGroup, toGroup, engine)

ClickFilter == \E status \in FilterStatuses : SetFilterStatus(status)

Next ==
    \/ SubmitAddTodo
    \/ ClickToggleTodo
    \/ ClickDeleteTodo
    \/ SubmitEditTodo
    \/ HoverMoveItem
    \/ ClickFilter
    \/ Tick
    \/ TimeoutFires
    \/ Reload

Spec == Init /\ [][Next]_vars

\* C12: in every state of a session the list is its today tasks, followed
\* by its tomorrow tasks, followed by its upcoming tasks, the groups taken
\* at the current instant.
C12_ListIsGroupsInOrder ==
    todos = GroupTodos(todos, "today", now)
              \o GroupTodos(todos, "tomorrow", now)
              \o GroupTodos(todos, "upcoming", now)

\* C15: in every state of a session the ids of the tasks of the list are
\* pairwise distinct.
C15_DistinctIds ==
    \A a, b \in 1..Len(todos) : a # b => todos[a].id # todos[b].id

\* C17: in every state of a session the list saved and loaded again is
\* the list, with the order and the id, text, completed and due date of
\* every task, and so is the list a new session would load.
C17_SaveLoadRoundTrip ==
    /\ loadTodosFromLocalStorage(saveTodosToLocalStorage(todos)) = todos
    /\ loadTodosFromLocalStorage(storage) = todos

\* list without its element at position k.
Without(list, k) ==
    [j \in 1..(Len(list) - 1) |-> IF j < k THEN list[j] ELSE list[j + 1]]

\* C18: toggleTodo(id) negates completed of the task with that id and
\* changes nothing else: the list has the same length and order, at most
\* one task differs from before, it is a task with that id and it differs
\* in completed alone; it does differ when a task has the id.
C18_ToggleOnlyThatTask ==
    last.op = "toggleTodo"
    => LET changed == {k \in 1..Len(last.prev) : todos[k] # last.prev[k]}
       IN  /\ Len(todos) = Len(last.prev)
           /\ Cardinality(changed) <= 1
           /\ \A k \in changed :
                 /\ last.prev[k].id = last.id
                 /\ todos[k] = [last.prev[k] EXCEPT
                                   !.completed = ~last.prev[k].completed]
           /\ (\E k \in 1..Len(last.prev) : last.prev[k].id = last.id)
                 => changed # {}

\* C20: deleteTodo(id) returns the list without the task with that id, the
\* other tasks unchanged and in their order, and the same list when no task
\* has the id.
C20_DeleteOnlyThatTask ==
    last.op = "deleteTodo"
    => IF \E k \in 1..Len(last.prev) : last.prev[k].id = last.id
       THEN \E k \in 1..Len(last.prev) :
               /\ last.prev[k].id = last.id
               /\ todos = Without(last.prev, k)
       ELSE todos = last.prev
\* ------------------------------------------- the completion message
\* Calls of toggleTodo, deleteTodo, editTodo and moveItem, in any order,
\* and timeouts that fire, on a list that may repeat an id.
InitMessage ==
    /\ todos \in {list \in InputListsAnyId : Len(list) <= MaxListed}
    /\ now = TicksPerDay
    /\ last = NoRecord
    /\ storage = saveTodosToLocalStorage(todos)
    /\ filterStatus = "all"
    /\ NoMessage
    /\ dragItem = NoDrag

NextMessage ==
    \/ ClickToggleTodo
    \/ ClickDeleteTodo
    \/ SubmitEditTodo
    \/ HoverMoveItem
    \/ TimeoutFires

SpecMessage == InitMessage /\ [][NextMessage]_vars

\* Timeouts fire: a timeout that stays pending is not pending for ever.
SpecMessageFair == SpecMessage /\ WF_vars(TimeoutFires)

MessageShown == completedTodoId # NullId

\* C28: at every moment, if completedTodoId is not null then the timeout of
\* completionTimeoutRef is pending, and at most one timeout is pending; and
\* whenever the message is shown, after any calls of toggleTodo, deleteTodo,
\* editTodo and moveItem, it is hidden at some later moment, given that a
\* pending timeout fires in the end.
C28_MessageCleared ==
    /\ [](/\ MessageShown => completionTimeoutRef \in timeouts
          /\ Cardinality(timeouts) <= 1)
    /\ (MessageShown ~> ~MessageShown)

\* The message is shown, with its timeout pending, for a task that has been
\* deleted since.
C28_Witness ==
    /\ MessageShown
    /\ timeouts = {completionTimeoutRef}
    /\ \A k \in 1..Len(todos) : todos[k].id # completedTodoId

\* One call of toggleTodo, with no message shown or with the message shown
\* for a completed task of the list or for a task that was deleted.
InitToggle ==
    /\ todos \in InputListsAnyId
    /\ now \in InputNows
    /\ last = NoCall
    /\ storage = saveTodosToLocalStorage(todos)
    /\ filterStatus = "all"
    /\ \/ NoMessage
       \/ /\ completedTodoId \in CallIds
          /\ \A k \in 1..Len(todos) :
                todos[k].id = completedTodoId => todos[k].completed
          /\ completionTimeoutRef = 1
          /\ timeouts = {completionTimeoutRef}
    /\ dragItem = NoDrag

SpecToggle == InitToggle /\ [][CallToggleTodo]_vars

\* A call of toggleTodo made a completed task with the id not completed.
Uncompleted ==
    /\ last.op = "toggleTodo"
    /\ \E k \in 1..Len(last.prev) :
          last.prev[k].id = last.id /\ last.prev[k].completed

\* C23: right after a call of toggleTodo that makes a task not completed,
\* completedTodoId is null, completionTimeoutRef is null and no timeout is
\* pending, whichever id the message was shown for.
C23_UncompleteHidesMessage ==
    Uncompleted
    => /\ completedTodoId = NullId
       /\ completionTimeoutRef = NullTimeout
       /\ timeouts = {}

\* C21: addTodo with a text that is not blank appends one task to the list:
\* the tasks before it are the former list, and the new task has the text,
\* is not completed and is due on the day chosen in the date field (no date
\* when the field was cleared); with a blank text the list is unchanged.
C21_AddAppendsChosen ==
    last.op = "addTodo"
    => IF Trim(last.newTodo) # ""
       THEN /\ Len(todos) = Len(last.prev) + 1
            /\ SubSeq(todos, 1, Len(last.prev)) = last.prev
            /\ todos[Len(todos)].text = last.newTodo
            /\ todos[Len(todos)].completed = FALSE
            /\ IF last.dueDate = EmptyField
               THEN todos[Len(todos)].dueDate = InvalidDate
               ELSE /\ todos[Len(todos)].dueDate # InvalidDate
                    /\ DayOf(todos[Len(todos)].dueDate) = last.dueDate
       ELSE todos = last.prev

\* ---------------------------------------------------------------- one drag
\* dragItem is the item of the drag monitor: useDrag creates it from the
\* props of the DraggableItem the drag starts on, and hover changes it.

\* The test with the comparison of the groups negated.
SameTargetOtherGroup(item, hoverIndex, toGroup) ==
    item.index = hoverIndex /\ item.group # toGroup

\* The test of hover that returns before moveItem is called.
SameTarget(item, hoverIndex, toGroup) ==
    item.index = hoverIndex /\ item.group = toGroup

\* A drag starts on the item rendered at index under the heading of group.
BeginDrag(group, index) ==
    /\ last = NoCall
    /\ dragItem = NoDrag
    /\ \E shown \in {Displayed(todos, filterStatus, now)} :
          /\ index < Len(shown[group])
          /\ dragItem' = [id |-> shown[group][index + 1].id,
                          index |-> index, group |-> group]
    /\ Log([op |-> "beginDrag"])
    /\ UNCHANGED <<todos, now, storage, filterStatus, messageVars>>

\* A hover event of the drag over the item rendered at hoverIndex under the
\* heading of toGroup.  The record keeps the item before the event (item),
\* the id of the hovered task (hovered), whether moveItem was called
\* (called), whether it accepted the index (valid), the id of the task it
\* removed from the source group (dragged) and whether the event is the
\* first of the drag (first).
Hover(hoverIndex, toGroup, engine) ==
    /\ dragItem # NoDrag
    /\ last.op \in {"beginDrag", "hover"}
    /\ \E shown \in {Displayed(todos, filterStatus, now)} :
          /\ hoverIndex < Len(shown[toGroup])
          /\ IF SameTarget(dragItem, hoverIndex, toGroup)
             THEN /\ Log([op |-> "hover", item |-> dragItem,
                          hoverIndex |-> hoverIndex, toGroup |-> toGroup,
                          hovered |-> shown[toGroup][hoverIndex + 1].id,
                          prev |-> todos, called |-> FALSE, valid |-> FALSE,
                          dragged |-> NullId,
                          first |-> (last.op = "beginDrag")])
                  /\ UNCHANGED <<todos, now, storage, filterStatus,
                                 messageVars, dragItem>>
             ELSE \E r \in {moveItem(todos, dragItem.index, hoverIndex,
                                     dragItem.group, toGroup,
                                     [from |-> now, to |-> now, set |-> now],
                                     engine)} :
                    /\ todos' = r.todos
                    /\ dragItem' = [dragItem EXCEPT !.index = hoverIndex,
                                                    !.group = toGroup]
                    /\ Log([op |-> "hover", item |-> dragItem,
                            hoverIndex |-> hoverIndex, toGroup |-> toGroup,
                            hovered |-> shown[toGroup][hoverIndex + 1].id,
                            prev |-> todos, called |-> TRUE,
                            valid |-> r.valid,
                            dragged |-> IF r.dragged = 0 THEN NullId
                                        ELSE todos[r.dragged].id,
                            first |-> (last.op = "beginDrag")])
                    /\ SaveEffect
                    /\ UNCHANGED <<now, filterStatus, messageVars>>

\* The drag ends: the monitor drops its item.
EndDrag ==
    /\ dragItem # NoDrag
    /\ dragItem' = NoDrag
    /\ Log([op |-> "endDrag"])
    /\ UNCHANGED <<todos, now, storage, filterStatus, messageVars>>

InitDrag ==
    /\ todos \in InputLists
    /\ now \in InputNows
    /\ last = NoCall
    /\ storage = saveTodosToLocalStorage(todos)
    /\ filterStatus \in FilterStatuses
    /\ NoMessage
    /\ dragItem = NoDrag

DragStarts ==
    \E group \in Groups, index \in 0..(MaxTodos - 1) : BeginDrag(group, index)

HoverEvent ==
    \E hoverIndex \in 0..(MaxTodos - 1), toGroup \in Groups,
       engine \in Engines : Hover(hoverIndex, toGroup, engine)

NextDrag == DragStarts \/ HoverEvent \/ EndDrag

SpecDrag == InitDrag /\ [][NextDrag]_vars

\* C22: after a hover event over the drop target whose index and group are
\* those of the drag item, moveItem has not been called, the list is the
\* list before the event and the drag item is the item before the event.
C22_SameTargetNoMove ==
    (last.op = "hover" /\ last.item.index = last.hoverIndex
                      /\ last.item.group = last.toGroup)
    => /\ ~last.called
       /\ todos = last.prev
       /\ dragItem = last.item

\* A hover over the drag item's own index and group that follows an
\* earlier hover of the same drag.
C22_Witness ==
    /\ last.op = "hover"
    /\ ~last.first
    /\ last.item.index = last.hoverIndex
    /\ last.item.group = last.toGroup
    /\ todos = last.prev

\* C24: after each hover event of a drag that called moveItem, the task at
\* position item.index of the group item.group of the updated list has the
\* id of the drag item.
C24_ItemFollowsTask ==
    (last.op = "hover" /\ last.called)
    => \E tasks \in {GroupTodos(todos, dragItem.group, now)} :
          /\ dragItem.index < Len(tasks)
          /\ tasks[dragItem.index + 1].id = dragItem.id

\* C25: at the first hover event of a drag that calls moveItem, under any
\* filter status, moveItem accepts the index, the task it removes from the
\* source group has the id of the dragged item, and the task at hoverIndex
\* of the destination group has the id of the hovered item.
C25_IndexIdentifiesTask ==
    (last.op = "hover" /\ last.called /\ last.first)
    => /\ last.valid
       /\ last.dragged = last.item.id
       /\ \E tasks \in {GroupTodos(last.prev, last.toGroup, now)} :
             /\ last.hoverIndex < Len(tasks)
             /\ tasks[last.hoverIndex + 1].id = last.hovered

\* ------------------------------------------------- the updater run twice
\* The builds of the application: under StrictMode the development build
\* of React calls a state updater twice with the same previous state and
\* uses the result of the second call; the production build calls it once.
Builds == {"production", "development"}

\* The task objects of prevTodos as the updater's first run leaves them.
\* The second run is given the same array of the same objects.
SecondRunInput(first) == first.prevAfter

\* One call of moveItem in a build: once holds the list the first run of
\* the updater returns, twice the list the second run returns.
MoveItemStrict(dragIndex, hoverIndex, fromGroup, toGroup, engine, build) ==
    \E clock \in {[from |-> now, to |-> now, set |-> now]} :
      \E first \in {moveItem(todos, dragIndex, hoverIndex, fromGroup,
                             toGroup, clock, engine)} :
        \E second \in {moveItem(SecondRunInput(first), dragIndex,
                                hoverIndex, fromGroup, toGroup, clock,
                                engine)} :
          /\ todos' = IF build = "development" THEN second.todos
                      ELSE first.todos
          /\ Log([op |-> "moveItemStrict", dragIndex |-> dragIndex,
                  hoverIndex |-> hoverIndex, fromGroup |-> fromGroup,
                  toGroup |-> toGroup, prev |-> todos, at |-> now,
                  build |-> build, valid |-> first.valid,
                  once |-> first.todos, twice |-> second.todos])
          /\ SaveEffect
          /\ UNCHANGED <<now, filterStatus, messageVars, dragItem>>

NextStrict ==
    /\ last = NoCall
    /\ \E dragIndex \in 0..(MaxTodos - 1), hoverIndex \in 0..(MaxTodos - 1),
          fromGroup \in Groups, toGroup \in Groups, engine \in Engines,
          build \in Builds :
           MoveItemStrict(dragIndex, hoverIndex, fromGroup, toGroup, engine,
                          build)

SpecStrict == InitMove /\ [][NextStrict]_vars

\* C26: the list the updater of moveItem returns when it is run a second
\* time on the same previous list, with the same arguments at the same
\* instant, is the list its first run returned: same tasks, same order,
\* same due dates.
C26_SecondRunSameList ==
    last.op = "moveItemStrict" => last.twice = last.once

\* ------------------------------------------------ the flat-index iterations
\* In the iterations before the groups became arguments of moveItem, an
\* item's index is its position under its heading plus the number of tasks
\* under the headings before it: its position in the rendered sequence.
FlatDisplayed(list, clock) ==
    GroupTodos(list, "today", clock) \o GroupTodos(list, "tomorrow", clock)
        \o GroupTodos(list, "upcoming", clock)

\* moveItem(dragIndex, hoverIndex) and the body of onDragEnd: the element at
\* dragIndex of a copy of the list is spliced out and spliced in at
\* hoverIndex.  Both indices are within the list.
flatMoveItem(prevTodos, dragIndex, hoverIndex) ==
    LET draggedItem == prevTodos[dragIndex + 1]
        removed == [k \in 1..(Len(prevTodos) - 1) |->
                       IF k <= dragIndex THEN prevTodos[k]
                       ELSE prevTodos[k + 1]]
    IN  [k \in 1..Len(prevTodos) |->
            IF k <= hoverIndex THEN removed[k]
            ELSE IF k = hoverIndex + 1 THEN draggedItem
            ELSE removed[k - 1]]

\* The first hover of a drag of the item rendered at dragIndex over the
\* item rendered at hoverIndex.
FlatHover(dragIndex, hoverIndex) ==
    /\ last = NoCall
    /\ \E shown \in {FlatDisplayed(todos, now)} :
          /\ dragIndex < Len(shown)
          /\ hoverIndex < Len(shown)
          /\ dragIndex # hoverIndex
          /\ todos' = flatMoveItem(todos, dragIndex, hoverIndex)
          /\ dragItem' = [id |-> shown[dragIndex + 1].id, index |-> hoverIndex]
          /\ Log([op |-> "flatHover", dragIndex |-> dragIndex,
                  hoverIndex |-> hoverIndex, prev |-> todos, at |-> now,
                  dragged |-> shown[dragIndex + 1].id,
                  hovered |-> shown[hoverIndex + 1].id])
    /\ SaveEffect
    /\ UNCHANGED <<now, filterStatus, messageVars>>

\* The destinations of a drop: the index of a rendered item, or none when
\* the item is dropped outside the list.
NoDestination == -1

\* onDragEnd(result) for the item rendered at source.
onDragEnd(source, destination) ==
    /\ last = NoCall
    /\ \E shown \in {FlatDisplayed(todos, now)} :
          /\ source < Len(shown)
          /\ destination < Len(shown)
          /\ todos' = IF destination = NoDestination THEN todos
                      ELSE flatMoveItem(todos, source, destination)
          /\ Log([op |-> "onDragEnd", dragIndex |-> source,
                  hoverIndex |-> destination, prev |-> todos, at |-> now,
                  dragged |-> shown[source + 1].id,
                  hovered |-> IF destination = NoDestination THEN NullId
                              ELSE shown[destination + 1].id])
    /\ SaveEffect
    /\ UNCHANGED <<now, filterStatus, messageVars, dragItem>>

FlatHoverEvent ==
    \E dragIndex \in 0..(MaxTodos - 1), hoverIndex \in 0..(MaxTodos - 1) :
        FlatHover(dragIndex, hoverIndex)

FlatDrop ==
    \E source \in 0..(MaxTodos - 1),
       destination \in (0..(MaxTodos - 1)) \cup {NoDestination} :
        onDragEnd(source, destination)

NextFlat == FlatHoverEvent \/ FlatDrop

SpecFlat == InitMove /\ [][NextFlat]_vars

\* C27: after a flat-index move of the item rendered at dragIndex onto the
\* item rendered at hoverIndex, on a list of tasks added with any due
\* dates, the task taken out of the master list is the dragged task, and
\* in the render of the new list the dragged task is at hoverIndex.
C27_FlatIndexMovesDragged ==
    (last.op \in {"flatHover", "onDragEnd"}
        /\ last.hoverIndex # NoDestination
        /\ last.hoverIndex # last.dragIndex)
    => /\ last.prev[last.dragIndex + 1].id = last.dragged
       /\ FlatDisplayed(todos, now)[last.hoverIndex + 1].id = last.dragged

====
